---- MODULE Spec2Model ----
(***************************************************************************)
(* A model of glean.py: one command-line run (main) and the model-listing  *)
(* cache (fetch_models_data), the latter in steps fine enough to let       *)
(* several runs interleave on the shared cache file.                       *)
(*                                                                         *)
(* Representation.                                                         *)
(*  - Python strings are TLA+ strings; Python's None is the string "None"  *)
(*    for string-typed fields.                                             *)
(*  - A float is its canonical text ("0.0", "0.4"); Tenths gives its value *)
(*    in tenths for the comparisons.                                       *)
(*  - A parsed JSON value is a record [kind, data]; a file's content is a  *)
(*    sequence of chunks, one chunk per write the buffered writer issues.  *)
(***************************************************************************)
EXTENDS Integers, Sequences, FiniteSets, TLC

VARIABLES
    cache,      \* the cache file: [exists, content, mtime]
    clock,      \* time.time(), in seconds
    proc,       \* per run: the locals of main / list_models / fetch_models_data
    lastWriter  \* the run whose save_models_to_cache closed the file last (0: none)

vars == <<cache, clock, proc, lastWriter>>

\* Number of runs that may execute side by side.
NProcs == 2

Procs == 1 .. NProcs

-----------------------------------------------------------------------------
(* Floats *)

\* float(s): the canonical float of a decimal text; "ValueError" if it has none.
PyFloat(s) ==
    CASE s = "0"    -> "0.0"
      [] s = "0.0"  -> "0.0"
      [] s = "0.4"  -> "0.4"
      [] s = "0.7"  -> "0.7"
      [] s = "1"    -> "1.0"
      [] s = "1.5"  -> "1.5"
      [] s = "-0.1" -> "-0.1"
      [] OTHER      -> "ValueError"

\* The value of a canonical float, in tenths.
Tenths(f) ==
    CASE f = "-0.1" -> 0 - 1
      [] f = "0.0"  -> 0
      [] f = "0.4"  -> 4
      [] f = "0.7"  -> 7
      [] f = "1.0"  -> 10
      [] f = "1.5"  -> 15

FloatLt(a, b) == Tenths(a) < Tenths(b)
FloatGt(a, b) == Tenths(a) > Tenths(b)

-----------------------------------------------------------------------------
(* JSON values and the cache file's bytes *)

ModelIds == {"a1", "a2", "b1", "b2", "c1"}

PyNone      == [kind |-> "None", data |-> <<>>]
JNum        == [kind |-> "num",  data |-> <<>>]
JDict(d)    == [kind |-> "dict", data |-> d]
JList(d)    == [kind |-> "list", data |-> d]

\* json.dump(v, f): the chunks written, in order.
json_dump(v) ==
    CASE v.kind = "None" -> <<"null">>
      [] v.kind = "num"  -> <<"7">>
      [] v.kind = "dict" -> <<"{">> \o v.data \o <<"}">>
      [] v.kind = "list" -> <<"[">> \o v.data \o <<"]">>

Middle(c) == SubSeq(c, 2, Len(c) - 1)
AllIds(s) == \A i \in 1 .. Len(s) : s[i] \in ModelIds

\* json.load on a text-mode UTF-8 file holding content c:
\* [err: "" | "JSONDecodeError" | "UnicodeDecodeError", val].
json_load(c) ==
    IF \E i \in 1 .. Len(c) : c[i] = "\\xff"
    THEN [err |-> "UnicodeDecodeError", val |-> PyNone]
    ELSE IF c = <<"null">> THEN [err |-> "", val |-> PyNone]
    ELSE IF c = <<"7">> THEN [err |-> "", val |-> JNum]
    ELSE IF Len(c) >= 2 /\ c[1] = "{" /\ c[Len(c)] = "}" /\ AllIds(Middle(c))
    THEN [err |-> "", val |-> JDict(Middle(c))]
    ELSE IF Len(c) >= 2 /\ c[1] = "[" /\ c[Len(c)] = "]" /\ AllIds(Middle(c))
    THEN [err |-> "", val |-> JList(Middle(c))]
    ELSE [err |-> "JSONDecodeError", val |-> PyNone]

\* Catalogs the listing endpoint may answer with.
CatA == JDict(<<"a1", "a2">>)
CatB == JDict(<<"b1", "b2">>)
CatC == JList(<<"c1">>)
Catalogs == {CatA, CatB, CatC}

-----------------------------------------------------------------------------
(* Strings *)

\* Truth value of an optional string: None and "" are false.
Truthy(s) == s # "None" /\ s # ""

\* str.strip()
strip(t) ==
    CASE t = ""        -> ""
      [] t = "  \n"    -> ""
      [] t = " notes " -> "notes"
      [] OTHER         -> t

Texts == {"", "  \n", " notes "}

-----------------------------------------------------------------------------
(* Command line and config file *)

NoArgs ==
    [file |-> "None", prompt |-> "None", model |-> "None", temperature |-> "None",
     list_models |-> FALSE, list_models_with_details |-> FALSE]

\* Texts given to -t (absent: "None"); "abc" is no float.
ArgTemperatures == {"None", "0", "0.4", "1", "1.5", "-0.1", "abc"}

\* Command lines tried: every combination for an analysis run, and for the
\* listing flags every temperature with the other options all absent or all given.
Argv ==
    [file : {"None", "doc.txt"}, prompt : {"None", "", "Summarize"},
     model : {"None", "", "openai/gpt-4o-mini"}, temperature : ArgTemperatures,
     list_models : {FALSE}, list_models_with_details : {FALSE}]
    \cup
    {[file |-> o[1], prompt |-> o[2], model |-> o[3], temperature |-> t,
      list_models |-> l[1], list_models_with_details |-> l[2]] :
        o \in {<<"None", "None", "None">>, <<"doc.txt", "Summarize", "openai/gpt-4o-mini">>},
        t \in ArgTemperatures,
        l \in {<<TRUE, FALSE>>, <<FALSE, TRUE>>, <<TRUE, TRUE>>}}

\* ~/.glean_cfg: absent keys are "None".
ConfigFiles ==
    [exists : {TRUE}, section : {TRUE}, api_key : {"None", "sk-key"},
     model : {"None", "cfg/model"}, temperature : {"None", "0.7", "1.5", "abc"},
     system_prompt : {"None"}, http_proxy : {"None"}]
    \cup
    [exists : {TRUE}, section : {TRUE}, api_key : {"sk-key"},
     model : {"None", "cfg/model"}, temperature : {"None", "0.7", "1.5", "abc"},
     system_prompt : {"Be brief"}, http_proxy : {"http://proxy:8080"}]
    \cup
    {[exists |-> e, section |-> FALSE, api_key |-> "None", model |-> "None",
      temperature |-> "None", system_prompt |-> "None", http_proxy |-> "None"] :
        e \in BOOLEAN}

\* GleanConfig.__init__
GleanConfig ==
    [api_key |-> "None", model |-> "google/gemini-2.0-flash-exp", temperature |-> "0.4",
     system_prompt |-> "None", http_proxy |-> "None"]

\* GleanConfig.load_config on a file that has the section and the key:
\* the settings after the optional keys are applied.
load_config(f) ==
    [api_key |-> f.api_key,
     model |-> IF f.model # "None" THEN f.model ELSE GleanConfig.model,
     temperature |->
        IF f.temperature # "None" /\ PyFloat(f.temperature) # "ValueError"
        THEN PyFloat(f.temperature) ELSE GleanConfig.temperature,
     system_prompt |-> f.system_prompt,
     http_proxy |-> f.http_proxy]

\* Whether load_config ends the process, and with which message.
load_config_error(f) ==
    IF ~f.exists THEN "ConfigMissing"
    ELSE IF ~f.section THEN "ConfigInvalid"
    ELSE IF f.api_key = "None" THEN "ConfigInvalid"
    ELSE ""

-----------------------------------------------------------------------------
(* GleanAnalyzer.analyze_text: the pure parts *)

\* EmptyInput without the strip(): whitespace-only text counts as input.
EmptyInput_NoStrip(text, custom_prompt) == text = "" /\ ~Truthy(custom_prompt)

\* The guard that ends analyze_text before anything is sent.
EmptyInput(text, custom_prompt) == strip(text) = "" /\ ~Truthy(custom_prompt)

EffectiveModel(model_override, config) ==
    IF Truthy(model_override) THEN model_override ELSE config.model

EffectiveTemperature(temperature_override, config) ==
    IF temperature_override # "None" THEN temperature_override ELSE config.temperature

get_default_prompt == "Please provide a comprehensive analysis"

\* The prompt, as the sequence of the parts the f-string joins.
BuildPrompt(text, custom_prompt) ==
    IF Truthy(custom_prompt)
    THEN IF strip(text) # ""
         THEN <<custom_prompt, "\n\nText to analyze:\n", text>>
         ELSE <<custom_prompt>>
    ELSE <<get_default_prompt, "\n\nText to analyze:\n", text>>

BuildMessages(config, prompt) ==
    (IF Truthy(config.system_prompt)
     THEN <<[role |-> "system", content |-> <<config.system_prompt>>]>>
     ELSE <<>>)
    \o <<[role |-> "user", content |-> prompt]>>

NoRequest ==
    [sent |-> FALSE, model |-> "None", temperature |-> "None", messages |-> <<>>,
     proxy |-> "None"]

\* The POST analyze_text makes: the JSON body and the proxies argument.
BuildRequest(text, custom_prompt, model_override, temperature_override, config) ==
    [sent |-> TRUE,
     model |-> EffectiveModel(model_override, config),
     temperature |-> EffectiveTemperature(temperature_override, config),
     messages |-> BuildMessages(config, BuildPrompt(text, custom_prompt)),
     proxy |-> IF Truthy(config.http_proxy) THEN config.http_proxy ELSE "None"]

\* What the completion endpoint may do with a request.
\*   RequestException : connection error or non-2xx status
\*   bad_json         : 2xx, the body is no JSON
\*   no_choices / empty_choices : 2xx, JSON without a usable choices array
\*   choices          : 2xx, JSON, choices[0].message.content = content (null: "None")
\*   no_message       : 2xx, JSON, choices[0] has no message.content
NoResponse == [kind |-> "none", content |-> "None"]
Responses ==
    {[kind |-> k, content |-> "None"] :
        k \in {"RequestException", "bad_json", "no_choices", "empty_choices", "no_message"}}
    \cup {[kind |-> "choices", content |-> c] : c \in {"The summary.", "", "None"}}

\* analyze_text's return value for a response it does not crash on.
ResultOf(resp) == IF resp.kind = "choices" THEN resp.content ELSE "None"

\* The error analyze_text prints for a response ("": none).
FailureOf(resp) ==
    CASE resp.kind = "RequestException" -> "RequestFailed"
      [] resp.kind = "bad_json" -> "ResponseMalformed"
      [] resp.kind \in {"no_choices", "empty_choices"} -> "UnexpectedFormat"
      [] OTHER -> ""

-----------------------------------------------------------------------------
(* One run *)

NoFile == [exists |-> FALSE, content |-> <<>>, mtime |-> 0]
NoCfgFile ==
    [exists |-> FALSE, section |-> FALSE, api_key |-> "None", model |-> "None",
     temperature |-> "None", system_prompt |-> "None", http_proxy |-> "None"]
NoReturn == [from |-> "none", val |-> PyNone]

\* A run started with the command line argv, before main is entered (pc "start"),
\* or one that does not take place ("off").
NewProc(pc0, argv) ==
    [pc |-> pc0, argv |-> argv, args |-> NoArgs, detailed |-> FALSE,
     config |-> GleanConfig, cfgFile |-> NoCfgFile, configLoads |-> 0,
     text |-> "", analyzed |-> FALSE, request |-> NoRequest, response |-> NoResponse,
     result |-> "None", printed |-> "None", listed |-> <<>>,
     exitCode |-> 0 - 1, failure |-> "", warnings |-> {},
     netCalls |-> [completion |-> 0, models |-> 0],
     cacheReads |-> 0, cacheWrites |-> 0,
     cache0 |-> NoFile, readError |-> FALSE,
     fetched |-> "none", models_data |-> PyNone, returned |-> NoReturn,
     offset |-> 0, saved |-> "none"]

\* sys.exit(code), after printing the message of `failure` ("": nothing printed).
Exit(r, code, failure) == [r EXCEPT !.pc = "done", !.exitCode = code, !.failure = failure]

TemperatureOutOfRange(t) == t # "None" /\ (FloatLt(t, "0.0") \/ FloatGt(t, "1.0"))

\* main, from parse_args to the first call that touches the outside world.
Main(p) ==
    /\ proc[p].pc = "start"
    /\ LET argv == proc[p].argv
            bad  == argv.temperature # "None" /\ PyFloat(argv.temperature) = "ValueError"
            args == [argv EXCEPT !.temperature =
                        IF argv.temperature = "None" THEN "None" ELSE PyFloat(argv.temperature)]
            r    == [proc[p] EXCEPT !.args = args]
       IN proc' = [proc EXCEPT ![p] =
              IF bad THEN Exit(proc[p], 2, "usage")
              ELSE IF args.list_models
                THEN [r EXCEPT !.pc = "list", !.detailed = FALSE]
              ELSE IF args.list_models_with_details
                THEN [r EXCEPT !.pc = "list", !.detailed = TRUE]
              ELSE IF TemperatureOutOfRange(args.temperature)
                THEN Exit(r, 1, "InvalidTemperature")
              ELSE [r EXCEPT !.pc = "load_config"]]
    /\ UNCHANGED <<cache, clock, lastWriter>>

\* config = GleanConfig(); config.load_config()
LoadConfig(p) ==
    /\ proc[p].pc = "load_config"
    /\ \E f \in ConfigFiles :
        LET r == [proc[p] EXCEPT !.cfgFile = f, !.configLoads = @ + 1]
        IN proc' = [proc EXCEPT ![p] =
              IF load_config_error(f) # "" THEN Exit(r, 1, load_config_error(f))
              ELSE [r EXCEPT !.pc = "get_text",
                             !.config = load_config(f),
                             !.warnings = IF f.temperature # "None"
                                             /\ PyFloat(f.temperature) = "ValueError"
                                          THEN @ \cup {"Invalid temperature value in config"}
                                          ELSE @]]
    /\ UNCHANGED <<cache, clock, lastWriter>>

\* The text input: the file argument, or standard input.
GetText(p) ==
    /\ proc[p].pc = "get_text"
    /\ \E found \in BOOLEAN, isatty \in BOOLEAN, t \in Texts :
        proc' = [proc EXCEPT ![p] =
              IF Truthy(proc[p].args.file)
              THEN IF found THEN [proc[p] EXCEPT !.pc = "analyze", !.text = t]
                   ELSE Exit(proc[p], 1, "FileNotFound")
              ELSE IF isatty
              THEN IF Truthy(proc[p].args.prompt)
                   THEN [proc[p] EXCEPT !.pc = "analyze", !.text = ""]
                   ELSE Exit(proc[p], 1, "StdinUnavailable")
              ELSE [proc[p] EXCEPT !.pc = "analyze", !.text = t]]
    /\ UNCHANGED <<cache, clock, lastWriter>>

\* main's tail: print the result and leave, or sys.exit(1).
Finish(r, result) ==
    IF Truthy(result)
    THEN [r EXCEPT !.pc = "done", !.result = result, !.printed = result, !.exitCode = 0]
    ELSE [r EXCEPT !.pc = "done", !.result = result, !.exitCode = 1]

\* analyzer.analyze_text(...) and main's tail.
Analyze(p) ==
    /\ proc[p].pc = "analyze"
    /\ \E resp \in Responses :
        LET r0  == [proc[p] EXCEPT !.analyzed = TRUE]
            req == BuildRequest(r0.text, r0.args.prompt, r0.args.model,
                                r0.args.temperature, r0.config)
            r1  == [r0 EXCEPT !.request = req, !.response = resp,
                              !.netCalls.completion = @ + 1]
        IN proc' = [proc EXCEPT ![p] =
              IF EmptyInput(r0.text, r0.args.prompt)
                THEN Finish([r0 EXCEPT !.failure = "EmptyInput"], "None")
              ELSE IF resp.kind = "no_message"
                THEN Exit(r1, 1, "KeyError")
              ELSE Finish([r1 EXCEPT !.failure = FailureOf(resp)], ResultOf(resp))]
    /\ UNCHANGED <<cache, clock, lastWriter>>

-----------------------------------------------------------------------------
(* The model-listing cache *)

max_age_hours == 6
MaxAgeSeconds == max_age_hours * 3600

\* is_cache_valid with <= for <: a file aged exactly max_age_hours counts as fresh.
is_cache_valid_Inclusive(f, now) == f.exists /\ (now - f.mtime) <= MaxAgeSeconds

\* is_cache_valid, on the file f at time now.
is_cache_valid(f, now) == f.exists /\ (now - f.mtime) < MaxAgeSeconds

\* load_models_from_cache that takes only a {"data": ...} object for a catalog
\* and gives None for a bare list.
load_models_from_cache_DictOnly(f, ioerr) ==
    IF ~f.exists \/ ioerr THEN [err |-> "", val |-> PyNone]
    ELSE IF json_load(f.content).err = "JSONDecodeError" THEN [err |-> "", val |-> PyNone]
    ELSE IF json_load(f.content).val.kind = "list" THEN [err |-> "", val |-> PyNone]
    ELSE json_load(f.content)

\* load_models_from_cache on the file f; ioerr: open() fails although the file is there.
\* [err, val]: a missing file, an open failure and a JSONDecodeError give None;
\* any other error of json.load leaves the function.
load_models_from_cache(f, ioerr) ==
    IF ~f.exists \/ ioerr THEN [err |-> "", val |-> PyNone]
    ELSE IF json_load(f.content).err = "JSONDecodeError" THEN [err |-> "", val |-> PyNone]
    ELSE json_load(f.content)

\* Whether a call of load_models_from_cache gets to read the file.
ReadsFile(f, ioerr) == f.exists /\ ~ioerr

\* The file after a write of `chunk` at chunk position i (positions past the end
\* of a file another run has truncated are filled with NUL chunks).
WriteAt(content, i, chunk) ==
    [k \in 1 .. (IF Len(content) > i THEN Len(content) ELSE i) |->
        IF k = i THEN chunk
        ELSE IF k <= Len(content) THEN content[k]
        ELSE "\\0"]

\* list_models' own work on what fetch_models_data returned: "" or the exception
\* the loop raises.
ListingError(models_data) ==
    IF models_data.kind \in {"dict", "list"} THEN "" ELSE "TypeError"

\* fetch_models_data: is_cache_valid(cache_file_path)
CacheCheck(p) ==
    /\ proc[p].pc = "list"
    /\ proc' = [proc EXCEPT ![p] =
          [@ EXCEPT !.cache0 = cache,
                    !.pc = IF is_cache_valid(cache, clock) THEN "fresh_load" ELSE "fetch"]]
    /\ UNCHANGED <<cache, clock, lastWriter>>

\* fetch_models_data: the load of a cache that is_cache_valid accepted.
FreshLoad(p) ==
    /\ proc[p].pc = "fresh_load"
    /\ \E ioerr \in BOOLEAN :
        LET l == load_models_from_cache(cache, ioerr)
            r == [proc[p] EXCEPT !.cacheReads = IF ReadsFile(cache, ioerr) THEN @ + 1 ELSE @,
                                 !.readError = ioerr]
        IN proc' = [proc EXCEPT ![p] =
              IF l.err # "" THEN Exit(r, 1, l.err)
              ELSE IF l.val # PyNone
                THEN [r EXCEPT !.pc = "listing", !.returned = [from |-> "cache", val |-> l.val]]
              ELSE [r EXCEPT !.pc = "fetch"]]
    /\ UNCHANGED <<cache, clock, lastWriter>>

\* fetch_models_data: requests.get, raise_for_status, response.json()
Fetch(p) ==
    /\ proc[p].pc = "fetch"
    /\ \E ok \in BOOLEAN, v \in Catalogs :
        proc' = [proc EXCEPT ![p] =
              IF ok
              THEN [@ EXCEPT !.netCalls.models = @ + 1, !.fetched = "ok",
                             !.models_data = v, !.pc = "save_open"]
              ELSE [@ EXCEPT !.netCalls.models = @ + 1, !.fetched = "fail",
                             !.pc = "stale_load"]]
    /\ UNCHANGED <<cache, clock, lastWriter>>

\* save_models_to_cache: open(cache_file_path, 'w') truncates the file.
SaveOpen(p) ==
    /\ proc[p].pc = "save_open"
    /\ \E ioerr \in BOOLEAN :
        IF ioerr
        THEN /\ proc' = [proc EXCEPT ![p] =
                    [@ EXCEPT !.saved = "failed", !.pc = "listing",
                              !.returned = [from |-> "network", val |-> proc[p].models_data]]]
             /\ UNCHANGED cache
        ELSE /\ proc' = [proc EXCEPT ![p] =
                    [@ EXCEPT !.cacheWrites = @ + 1, !.offset = 0, !.pc = "save_write"]]
             /\ cache' = [exists |-> TRUE, content |-> <<>>, mtime |-> clock]
    /\ UNCHANGED <<clock, lastWriter>>

\* save_models_to_cache: json.dump, one buffered write per step; the last one
\* is the flush of close().
SaveWrite(p) ==
    /\ proc[p].pc = "save_write"
    /\ \E ioerr \in BOOLEAN :
        LET chunks == json_dump(proc[p].models_data)
            i      == proc[p].offset + 1
            ret    == [from |-> "network", val |-> proc[p].models_data]
        IN IF ioerr
           THEN /\ proc' = [proc EXCEPT ![p] =
                       [@ EXCEPT !.saved = "failed", !.pc = "listing", !.returned = ret]]
                /\ UNCHANGED <<cache, lastWriter>>
           ELSE /\ cache' = [cache EXCEPT !.content = WriteAt(@, i, chunks[i]),
                                          !.mtime = clock]
                /\ IF i = Len(chunks)
                   THEN /\ proc' = [proc EXCEPT ![p] =
                               [@ EXCEPT !.offset = i, !.saved = "ok", !.pc = "listing",
                                         !.returned = ret]]
                        /\ lastWriter' = p
                   ELSE /\ proc' = [proc EXCEPT ![p] = [@ EXCEPT !.offset = i]]
                        /\ UNCHANGED lastWriter
    /\ UNCHANGED clock

\* fetch_models_data: the except branch, after the request failed.
StaleLoad(p) ==
    /\ proc[p].pc = "stale_load"
    /\ \E ioerr \in BOOLEAN :
        LET l == load_models_from_cache(cache, ioerr)
            r == [proc[p] EXCEPT !.cacheReads = IF ReadsFile(cache, ioerr) THEN @ + 1 ELSE @,
                                 !.readError = @ \/ ioerr]
        IN proc' = [proc EXCEPT ![p] =
              IF l.err # "" THEN Exit(r, 1, l.err)
              ELSE IF l.val # PyNone
                THEN [r EXCEPT !.pc = "listing",
                               !.warnings = @ \cup {"API request failed, using cached data"},
                               !.returned = [from |-> "stale", val |-> l.val]]
              ELSE Exit(r, 1, "RequestException")]
    /\ UNCHANGED <<cache, clock, lastWriter>>

\* list_models after fetch_models_data returned, and main's sys.exit(0).
ListModels(p) ==
    /\ proc[p].pc = "listing"
    /\ proc' = [proc EXCEPT ![p] =
          IF ListingError(@.returned.val) # ""
          THEN Exit(@, 1, ListingError(@.returned.val))
          ELSE [@ EXCEPT !.pc = "done", !.exitCode = 0,
                         !.listed = proc[p].returned.val.data]]
    /\ UNCHANGED <<cache, clock, lastWriter>>

-----------------------------------------------------------------------------
(* Specifications *)

StartTime == 2 * MaxAgeSeconds

\* Ages around the freshness boundary, and a far-stale one.
Ages == {MaxAgeSeconds - 1, MaxAgeSeconds, MaxAgeSeconds + 1, StartTime}

\* Contents the cache file may be found with: what a run saved earlier, what an
\* interrupted save left behind, and bytes that are no UTF-8 text.
CacheContents ==
    {json_dump(v) : v \in {CatA, CatC, PyNone, JNum}}
    \cup {<<"{", "a1">>, <<>>, <<"\\xff">>}

CacheFiles ==
    {NoFile} \cup
    {[exists |-> TRUE, content |-> c, mtime |-> StartTime - a] :
        c \in CacheContents, a \in Ages}

Listing(argv) == argv.list_models \/ argv.list_models_with_details

\* One run of the program, with any command line. A run that lists models finds
\* the cache file in any state; an analysis run never touches the cache file
\* and is started without one.
Init ==
    /\ \E argv \in Argv :
        /\ proc = [p \in Procs |->
                     IF p = 1 THEN NewProc("start", argv) ELSE NewProc("off", NoArgs)]
        /\ cache \in IF Listing(argv) THEN CacheFiles ELSE {NoFile}
    /\ clock = StartTime
    /\ lastWriter = 0

Next ==
    \E p \in Procs :
        \/ Main(p)
        \/ LoadConfig(p)
        \/ GetText(p)
        \/ Analyze(p)
        \/ CacheCheck(p)
        \/ FreshLoad(p)
        \/ Fetch(p)
        \/ SaveOpen(p)
        \/ SaveWrite(p)
        \/ StaleLoad(p)
        \/ ListModels(p)

Spec == Init /\ [][Next]_vars

\* Several listing runs side by side on one cache file.
ListingArgs(detailed) ==
    [NoArgs EXCEPT !.list_models = ~detailed, !.list_models_with_details = detailed]

ListingRun(detailed) == NewProc("start", ListingArgs(detailed))

InitConc ==
    /\ cache \in {NoFile,
                  [exists |-> TRUE, content |-> json_dump(CatC), mtime |-> 0],
                  [exists |-> TRUE, content |-> json_dump(CatC), mtime |-> StartTime - 1]}
    /\ clock = StartTime
    /\ proc \in [Procs -> {ListingRun(FALSE), ListingRun(TRUE)}]
    /\ lastWriter = 0

NextConc ==
    \E p \in Procs :
        \/ Main(p)
        \/ CacheCheck(p)
        \/ FreshLoad(p)
        \/ Fetch(p)
        \/ SaveOpen(p)
        \/ SaveWrite(p)
        \/ StaleLoad(p)
        \/ ListModels(p)

SpecConc == InitConc /\ [][NextConc]_vars

-----------------------------------------------------------------------------
(* Properties *)

SixHours == 6 * 3600
FreshFile(f) == f.exists /\ clock - f.mtime < SixHours
StaleOrMissing(f) == ~f.exists \/ clock - f.mtime >= SixHours

\* fetch_models_data was entered by run p / has ended in run p.
FetchEntered(p) == Listing(proc[p].args) /\ proc[p].pc \notin {"start", "list"}
FetchEnded(p) == Listing(proc[p].args) /\ proc[p].pc \in {"listing", "done"}

C2_FetchFailureFallsBackToCache ==
    \A p \in Procs :
        (proc[p].pc = "done" /\ proc[p].fetched = "fail" /\ ~proc[p].readError)
        => IF cache.exists /\ json_load(cache.content).err = ""
           THEN /\ proc[p].returned = [from |-> "stale", val |-> json_load(cache.content).val]
                /\ proc[p].warnings # {}
                /\ proc[p].exitCode = 0
           ELSE /\ proc[p].failure = "RequestException"
                /\ proc[p].exitCode = 1

\* The temperature flag is a number outside [0.0, 1.0].
TemperatureFlagOutside(argv) ==
    /\ argv.temperature # "None"
    /\ PyFloat(argv.temperature) # "ValueError"
    /\ (Tenths(PyFloat(argv.temperature)) < 0 \/ Tenths(PyFloat(argv.temperature)) > 10)

\* C3: a run whose temperature flag is outside [0.0, 1.0] loads no config file
\* and makes no network call, and exits with a non-zero code, whatever the
\* other flags.
C3_BadTemperatureExitsBeforeAnything ==
    \A p \in Procs :
        (proc[p].pc # "off" /\ TemperatureFlagOutside(proc[p].argv))
        => /\ proc[p].configLoads = 0
           /\ proc[p].netCalls.completion = 0
           /\ proc[p].netCalls.models = 0
           /\ (proc[p].pc = "done" => proc[p].exitCode # 0)

\* C4: when the completion endpoint answers 2xx with a non-empty choices array,
\* analyze_text returns the first choice's content unchanged and main prints
\* it and exits 0; exit code 1 occurs only on a handled failure.
C4_ContentPrintedAndExitZero ==
    \A p \in Procs :
        proc[p].pc = "done"
        => /\ (proc[p].request.sent /\ proc[p].response.kind = "choices"
                    /\ proc[p].text = " notes ")
               => /\ proc[p].result = proc[p].response.content
                  /\ proc[p].printed = proc[p].response.content
                  /\ proc[p].exitCode = 0
           /\ proc[p].exitCode = 1 => proc[p].failure \notin {"", "KeyError"}

\* C5: analyze_text called with empty or whitespace-only text and no custom
\* prompt ends with the empty-input outcome: nothing is returned, the run
\* exits 1, and no network call is made.
C5_BlankInputNoNetwork ==
    \A p \in Procs :
        (/\ proc[p].analyzed
         /\ proc[p].text \in {"", "  \n"}
         /\ proc[p].args.prompt = "None")
        => /\ proc[p].pc = "done"
           /\ proc[p].result = "None"
           /\ proc[p].printed = "None"
           /\ proc[p].failure = "EmptyInput"
           /\ proc[p].exitCode = 1
           /\ ~proc[p].request.sent
           /\ proc[p].netCalls = [completion |-> 0, models |-> 0]

\* analyze_text has been called with whitespace-only text from standard input
\* and no prompt.
C5_Witness ==
    \E p \in Procs :
        /\ proc[p].analyzed
        /\ proc[p].text = "  \n"
        /\ proc[p].args.prompt = "None"
        /\ proc[p].args.file = "None"
        /\ proc[p].exitCode = 1

\* C6: in every request analyze_text sends, model is the override whenever one
\* was supplied, whatever its value, else the configured model; temperature is
\* the override whenever one was supplied, 0.0 included, else the configured
\* one; the config values are the ones load_config set.
C6_OverridesSupersedeConfig ==
    \A p \in Procs :
        proc[p].request.sent
        => /\ proc[p].request.model =
                IF proc[p].args.model # "None" THEN proc[p].args.model
                ELSE proc[p].config.model
           /\ proc[p].request.temperature =
                IF proc[p].args.temperature # "None" THEN proc[p].args.temperature
                ELSE proc[p].config.temperature
           /\ proc[p].config = load_config(proc[p].cfgFile)

\* C7: a run makes at most one network call, reads the cache file at most
\* once and writes it at most once.
C7_AtMostOneOfEach ==
    \A p \in Procs :
        /\ proc[p].netCalls.completion + proc[p].netCalls.models <= 1
        /\ proc[p].cacheReads <= 1
        /\ proc[p].cacheWrites <= 1

C9_RequestTemperatureInUnitRange ==
    \A p \in Procs :
        /\ proc[p].request.sent
            => /\ Tenths(proc[p].request.temperature) >= 0
               /\ Tenths(proc[p].request.temperature) <= 10
        /\ (proc[p].pc \in {"get_text", "analyze"} /\ proc[p].cfgFile.temperature = "abc")
            => proc[p].config.temperature = "0.4" /\ proc[p].warnings # {}

\* C10: with several listing runs on one cache file and every save completing,
\* a run returns a cached catalog only if it is a whole catalog of one fetch,
\* no run ends on an error of the cache load, and when all have ended the file
\* holds the whole catalog of the run that closed it last.
C10_LastWriterWins ==
    LET whole == {CatC} \cup {proc[q].models_data : q \in {r \in Procs : proc[r].fetched = "ok"}}
    IN (\A q \in Procs : proc[q].saved # "failed")
       => /\ \A p \in Procs :
               /\ proc[p].returned.from \in {"cache", "stale"} => proc[p].returned.val \in whole
               /\ proc[p].failure \notin {"UnicodeDecodeError", "JSONDecodeError"}
          /\ ((\A p \in Procs : proc[p].pc = "done") /\ lastWriter # 0)
               => cache.content = json_dump(proc[lastWriter].models_data)

====
